---- MODULE Spec2Model ----
(***************************************************************************)
(* Model of netlify/functions/send-contact-email.ts: a serverless contact  *)
(* form endpoint.  One handler invocation runs synchronously up to the     *)
(* single await (resend.emails.send) and, after the provider settles, to   *)
(* its return.  The process-wide state is rateLimitMap; Date.now() is the  *)
(* variable now.                                                           *)
(*                                                                         *)
(* JavaScript strings are sequences of one-character strings.  JavaScript  *)
(* values are records [t, n, s]: t the type tag, n the number (or the      *)
(* .length of an array), s the characters of a string.                     *)
(***************************************************************************)
EXTENDS Integers, Sequences, FiniteSets, Bags, TLC

VARIABLES
  allowedOrigins,   \* CONFIG.allowedOrigins, fixed when the module is loaded
  rateLimitMap,     \* Map<string, {count, resetTime}>
  now,              \* Date.now()
  pending,          \* invocations suspended at the await of resend.emails.send
  rl,               \* observation: the most recent call of checkRateLimit
  hist,             \* observation: per key, the calls of its current window
  last,             \* observation: the most recent invocation that returned
  vIn,              \* validator specification: the payload under test
  vOut,             \* validator specification: the outcome of validateContactData
  cIn,              \* CORS specification: ALLOWED_ORIGINS and the Origin header
  cOut,             \* CORS specification: the Access-Control-Allow-Origin value
  sIn,              \* sanitizer specification: the string under test
  sOut              \* sanitizer specification: one and two applications

vars == <<allowedOrigins, rateLimitMap, now, pending, rl, hist, last,
          vIn, vOut, cIn, cOut, sIn, sOut>>

---------------------------------------------------------------------------
(* Bounds of the model *)

\* number of invocations that may be suspended at the await at one time
MaxPending == 2
\* the clock reads 0, the last instant of the window opened at 0, or the first
\* instant after one of MaxWindows whole windows laid end to end
MaxWindows == 1
\* longest name and longest email enumerated for the validator
MaxNameLen == 3
MaxEmailLen == 5
\* longest ALLOWED_ORIGINS value and longest Origin header enumerated for the
\* CORS rule
MaxEnvLen == 3
MaxOriginLen == 2
MaxSanitizeLen == 3

---------------------------------------------------------------------------
(* CONFIG *)

maxMessageLength == 2000
rateLimitWindowMs == 60000
maxRequestsPerWindow == 5

---------------------------------------------------------------------------
(* JavaScript values *)

Undefined == [t |-> "undefined", n |-> 0, s |-> <<>>]
Null == [t |-> "null", n |-> 0, s |-> <<>>]
Num(k) == [t |-> "number", n |-> k, s |-> <<>>]
Str(cs) == [t |-> "string", n |-> 0, s |-> cs]
Arr(len) == [t |-> "array", n |-> len, s |-> <<>>]

\* ToBoolean: undefined, null, 0 and "" are falsy; arrays are truthy
Truthy(v) ==
  CASE v.t = "undefined" -> FALSE
    [] v.t = "null" -> FALSE
    [] v.t = "number" -> v.n # 0
    [] v.t = "string" -> v.s # <<>>
    [] OTHER -> TRUE

\* v.length > k: the length of a string or an array; undefined > k is false
LengthExceeds(v, k) ==
  CASE v.t = "string" -> Len(v.s) > k
    [] v.t = "array" -> v.n > k
    [] OTHER -> FALSE

\* \s of the regular expressions and the white space of String.prototype.trim
IsSpace(c) == c \in {" ", "\n"}

\* String.prototype.trim
Trim(cs) ==
  LET keep == {i \in 1..Len(cs) : ~IsSpace(cs[i])}
  IN IF keep = {} THEN <<>>
     ELSE LET lo == CHOOSE i \in keep : \A j \in keep : i <= j
              hi == CHOOSE i \in keep : \A j \in keep : j <= i
          IN SubSeq(cs, lo, hi)

\* String.prototype.split(','): the pieces between the commas, at least one
RECURSIVE SplitComma(_)
SplitComma(cs) ==
  LET commas == {i \in 1..Len(cs) : cs[i] = ","}
  IN IF commas = {} THEN <<cs>>
     ELSE LET c == CHOOSE i \in commas : \A j \in commas : i <= j
          IN <<SubSeq(cs, 1, c - 1)>> \o SplitComma(SubSeq(cs, c + 1, Len(cs)))

\* Array.prototype.includes
Includes(arr, x) == \E i \in 1..Len(arr) : arr[i] = x

---------------------------------------------------------------------------
(* Utility functions *)

\* /^[^\s@]+@[^\s@]+\.[^\s@]+$/.test(email)
isValidEmail(email) ==
  LET Plain(i, j) == i <= j /\ \A k \in i..j : ~IsSpace(email[k]) /\ email[k] # "@"
  IN \E a \in 1..Len(email) : \E d \in 1..Len(email) :
       /\ email[a] = "@"
       /\ email[d] = "."
       /\ a < d
       /\ Plain(1, a - 1)
       /\ Plain(a + 1, d - 1)
       /\ Plain(d + 1, Len(email))

\* String.prototype.replace(/c/g, rep): every occurrence of the character c
RECURSIVE ReplaceAll(_, _, _)
ReplaceAll(cs, c, rep) ==
  IF cs = <<>> THEN <<>>
  ELSE (IF Head(cs) = c THEN rep ELSE <<Head(cs)>>) \o ReplaceAll(Tail(cs), c, rep)

\* sanitizeString with .replace(/^\s|\s$/g, '') in place of .trim(): only one
\* white-space character is removed at each end
sanitizeStringStripsOneSpace(str) ==
  LET cs == ReplaceAll(ReplaceAll(ReplaceAll(str,
              "&", <<"&", "a", "m", "p", ";">>),
              "<", <<"&", "l", "t", ";">>),
              ">", <<"&", "g", "t", ";">>)
      lo == IF cs # <<>> /\ IsSpace(cs[1]) THEN 2 ELSE 1
      hi == IF Len(cs) >= lo /\ IsSpace(cs[Len(cs)]) THEN Len(cs) - 1 ELSE Len(cs)
  IN SubSeq(cs, lo, hi)

sanitizeString(str) ==
  Trim(ReplaceAll(ReplaceAll(ReplaceAll(str,
         "&", <<"&", "a", "m", "p", ";">>),
         "<", <<"&", "l", "t", ";">>),
         ">", <<"&", "g", "t", ";">>))

\* Map.prototype.set
MapSet(map, k, v) == [x \in (DOMAIN map) \cup {k} |-> IF x = k THEN v ELSE map[x]]

\* checkRateLimit with the limit compared by > instead of >=
checkRateLimitOffByOne(map, clientIP, t) ==
  IF clientIP \notin DOMAIN map \/ t > map[clientIP].resetTime
  THEN [allowed |-> TRUE,
        map |-> MapSet(map, clientIP,
                       [count |-> 1, resetTime |-> t + rateLimitWindowMs])]
  ELSE IF map[clientIP].count > maxRequestsPerWindow
  THEN [allowed |-> FALSE, map |-> map]
  ELSE [allowed |-> TRUE,
        map |-> [map EXCEPT ![clientIP].count = @ + 1]]

\* checkRateLimit restarting the window of a key whenever it denies a call
checkRateLimitDenialExtends(map, clientIP, t) ==
  IF clientIP \notin DOMAIN map \/ t > map[clientIP].resetTime
  THEN [allowed |-> TRUE,
        map |-> MapSet(map, clientIP,
                       [count |-> 1, resetTime |-> t + rateLimitWindowMs])]
  ELSE IF map[clientIP].count >= maxRequestsPerWindow
  THEN [allowed |-> FALSE,
        map |-> [map EXCEPT ![clientIP].resetTime = t + rateLimitWindowMs]]
  ELSE [allowed |-> TRUE,
        map |-> [map EXCEPT ![clientIP].count = @ + 1]]

\* checkRateLimit without the increment of line 67
checkRateLimitNoIncrement(map, clientIP, t) ==
  IF clientIP \notin DOMAIN map \/ t > map[clientIP].resetTime
  THEN [allowed |-> TRUE,
        map |-> MapSet(map, clientIP,
                       [count |-> 1, resetTime |-> t + rateLimitWindowMs])]
  ELSE IF map[clientIP].count >= maxRequestsPerWindow
  THEN [allowed |-> FALSE, map |-> map]
  ELSE [allowed |-> TRUE, map |-> map]

\* checkRateLimit with rateLimitMap.clear() before the set of lines 56-59
checkRateLimitClearsOnReset(map, clientIP, t) ==
  IF clientIP \notin DOMAIN map \/ t > map[clientIP].resetTime
  THEN [allowed |-> TRUE,
        map |-> MapSet(<<>>, clientIP,
                       [count |-> 1, resetTime |-> t + rateLimitWindowMs])]
  ELSE IF map[clientIP].count >= maxRequestsPerWindow
  THEN [allowed |-> FALSE, map |-> map]
  ELSE [allowed |-> TRUE,
        map |-> [map EXCEPT ![clientIP].count = @ + 1]]

\* checkRateLimit creating and resetting an entry with count 0
checkRateLimitCountFromZero(map, clientIP, t) ==
  IF clientIP \notin DOMAIN map \/ t > map[clientIP].resetTime
  THEN [allowed |-> TRUE,
        map |-> MapSet(map, clientIP,
                       [count |-> 0, resetTime |-> t + rateLimitWindowMs])]
  ELSE IF map[clientIP].count >= maxRequestsPerWindow
  THEN [allowed |-> FALSE, map |-> map]
  ELSE [allowed |-> TRUE,
        map |-> [map EXCEPT ![clientIP].count = @ + 1]]

\* checkRateLimit with the window compared by >= instead of >
checkRateLimitResetsAtBoundary(map, clientIP, t) ==
  IF clientIP \notin DOMAIN map \/ t >= map[clientIP].resetTime
  THEN [allowed |-> TRUE,
        map |-> MapSet(map, clientIP,
                       [count |-> 1, resetTime |-> t + rateLimitWindowMs])]
  ELSE IF map[clientIP].count >= maxRequestsPerWindow
  THEN [allowed |-> FALSE, map |-> map]
  ELSE [allowed |-> TRUE,
        map |-> [map EXCEPT ![clientIP].count = @ + 1]]

\* checkRateLimit(clientIP) at Date.now() = t: the verdict and the table it leaves
checkRateLimit(map, clientIP, t) ==
  IF clientIP \notin DOMAIN map \/ t > map[clientIP].resetTime
  THEN [allowed |-> TRUE,
        map |-> MapSet(map, clientIP,
                       [count |-> 1, resetTime |-> t + rateLimitWindowMs])]
  ELSE IF map[clientIP].count >= maxRequestsPerWindow
  THEN [allowed |-> FALSE, map |-> map]
  ELSE [allowed |-> TRUE,
        map |-> [map EXCEPT ![clientIP].count = @ + 1]]

---------------------------------------------------------------------------
(* Validation *)

ErrName == "Name is required and must be at least 2 characters"
ErrEmail == "Valid email address is required"
ErrMessageMin == "Message is required and must be at least 10 characters"
ErrMessageMax == "Message must be less than 2000 characters"

\* data.field: undefined on every value that is not an object with that field
\* (the access on null throws and is handled where it happens)
GetProp(data, field) == IF data.t = "object" THEN data[field] ELSE Undefined

\* !v || typeof v !== 'string' || v.trim().length < k
TooShort(v, k) == ~Truthy(v) \/ v.t # "string" \/ Len(Trim(v.s)) < k

nameRuleFails(data) == TooShort(GetProp(data, "name"), 2)

emailRuleFails(data) ==
  LET v == GetProp(data, "email")
  IN ~Truthy(v) \/ v.t # "string" \/ ~isValidEmail(v.s)

messageMinRuleFails(data) == TooShort(GetProp(data, "message"), 10)

messageMaxRuleFails(data) ==
  LET v == GetProp(data, "message")
  IN Truthy(v) /\ LengthExceeds(v, maxMessageLength)

\* validateContactData(data): data.name on null throws a TypeError
validateContactData(data) ==
  IF data.t = "null"
  THEN [threw |-> TRUE, isValid |-> FALSE, errors |-> <<>>]
  ELSE LET errors ==
             (IF nameRuleFails(data) THEN <<ErrName>> ELSE <<>>)
             \o (IF emailRuleFails(data) THEN <<ErrEmail>> ELSE <<>>)
             \o (IF messageMinRuleFails(data) THEN <<ErrMessageMin>> ELSE <<>>)
             \o (IF messageMaxRuleFails(data) THEN <<ErrMessageMax>> ELSE <<>>)
       IN [threw |-> FALSE, isValid |-> Len(errors) = 0, errors |-> errors]

---------------------------------------------------------------------------
(* Rendering *)

\* sanitizeString(v) throws when v is not a string (v.replace is not a function)
SanitizeThrows(v) == v.t # "string"

\* createEmailContent(data) for a payload that passed validation: the subject,
\* the sanitized fields embedded in the html and the raw fields of the text.
\* An optional field is embedded only when truthy.
createEmailContent(data) ==
  LET optional == {f \in {"subject", "phone", "company"} : Truthy(data[f])}
      san(f) == IF f \in optional \cup {"name", "email", "message"}
                THEN sanitizeString(data[f].s) ELSE <<>>
      raw(f) == IF f \in optional \cup {"name", "email", "message"}
                THEN data[f].s ELSE <<>>
  IN IF \E f \in optional : SanitizeThrows(data[f])
     THEN [threw |-> TRUE, subject |-> <<>>, html |-> <<>>, text |-> <<>>]
     ELSE [threw |-> FALSE,
           subject |-> IF "subject" \in optional
                       THEN <<"Contact form: ">> \o san("subject")
                       ELSE <<"New contact from ">> \o san("name"),
           html |-> <<san("name"), san("email"), san("phone"), san("company"),
                      san("subject"), san("message")>>,
           text |-> <<raw("name"), raw("email"), raw("phone"), raw("company"),
                      raw("subject"), raw("message")>>]

---------------------------------------------------------------------------
(* Requests and responses *)

\* a header that the request does not carry
NoHeader == [present |-> FALSE, v |-> <<>>]
Header(cs) == [present |-> TRUE, v |-> cs]

\* h || dflt for a header h: an absent and an empty header are both falsy
OrElse(h, dflt) == IF h.present /\ h.v # <<>> THEN h.v ELSE dflt

\* a parsed JSON value as the handler's payload; a primitive has no properties
Obj(name, email, message, subject, phone, company) ==
  [t |-> "object", n |-> 0, s |-> <<>>, name |-> name, email |-> email,
   message |-> message, subject |-> subject, phone |-> phone, company |-> company]
Prim(v) ==
  [t |-> v.t, n |-> v.n, s |-> v.s, name |-> Undefined, email |-> Undefined,
   message |-> Undefined, subject |-> Undefined, phone |-> Undefined,
   company |-> Undefined]
EmptyObject == Obj(Undefined, Undefined, Undefined, Undefined, Undefined, Undefined)

\* JSON.parse(event.body || '{}'): a missing or empty body parses as {}
JSONParse(body) ==
  CASE body.kind = "absent" -> [ok |-> TRUE, data |-> EmptyObject]
    [] body.kind = "malformed" -> [ok |-> FALSE, data |-> EmptyObject]
    [] OTHER -> [ok |-> TRUE, data |-> body.data]

\* process.env.ALLOWED_ORIGINS?.split(',') || []
loadAllowedOrigins(env) == IF env.present THEN SplitComma(env.v) ELSE <<>>

AcaoNull == <<"n", "u", "l", "l">>
AcaoAny == <<"*">>

\* corsHeaders['Access-Control-Allow-Origin']
corsHeaders(origins, origin) ==
  IF Len(origins) > 0
  THEN (IF Includes(origins, OrElse(origin, <<>>))
        THEN OrElse(origin, <<>>)
        ELSE AcaoNull)
  ELSE AcaoAny

\* the client key with x-forwarded-for read before client-ip
clientIPForwardedFirst(event) ==
  OrElse(event.xff, OrElse(event.clientIp, <<"unknown">>))

\* event.headers['client-ip'] || event.headers['x-forwarded-for'] || 'unknown'
clientIP(event) == OrElse(event.clientIp, OrElse(event.xff, <<"unknown">>))

MsgPreflight == "CORS preflight successful"
MsgMethod == "Method not allowed. Use POST."
MsgTooMany == "Too many requests. Please try again later."
MsgBadJson == "Invalid JSON in request body"
MsgValidation == "Validation failed"
MsgSendFailed == "Failed to send email. Please try again."
MsgSent == "Message sent successfully!"
MsgUnexpected == "An unexpected error occurred. Please try again."

\* a returned {statusCode, headers, body}; success is "absent" in the preflight
\* body, error is the list that errors.join(', ') joins (empty: no error key)
Response(status, acao, success, message, errors) ==
  [statusCode |-> status,
   headers |-> [present |-> TRUE, acao |-> acao],
   body |-> [success |-> success, message |-> message, error |-> errors]]

\* no response: the invocation has not returned, or an exception left it
NoResponse ==
  [statusCode |-> 0,
   headers |-> [present |-> FALSE, acao |-> <<>>],
   body |-> [success |-> "absent", message |-> "", error |-> <<>>]]

NoArgs == [replyTo |-> Undefined, subject |-> <<>>]

\* where a run of the handler from its entry stands: path names the statement
\* that ended it ("await": suspended in resend.emails.send), verdict what
\* checkRateLimit answered ("none": not called), map the table it leaves
Outcome(path, response, map, verdict, acao, args) ==
  [path |-> path, response |-> response, map |-> map, verdict |-> verdict,
   acao |-> acao, args |-> args]

\* the catch block of the handler
catchBlock(acao, map) ==
  Outcome("catch", Response(500, acao, "false", MsgUnexpected, <<>>), map,
          "allowed", acao, NoArgs)

\* sendArguments with the reply-to taken from the wrong field
sendArgumentsReplyToName(data, emailContent) ==
  [replyTo |-> data.name, subject |-> emailContent.subject]

\* the arguments of resend.emails.send that depend on the request
sendArguments(data, emailContent) ==
  [replyTo |-> data.email, subject |-> emailContent.subject]

\* "Create email content" and "Send email via Resend", up to the await
renderAndSend(acao, data, map) ==
  LET emailContent == createEmailContent(data)
  IN IF emailContent.threw
     THEN catchBlock(acao, map)
     ELSE Outcome("await", NoResponse, map, "allowed", acao,
                  sendArguments(data, emailContent))

\* validateStage without the return on a failed validation
validateStageNoReturn(acao, data, map) ==
  LET validation == validateContactData(data)
  IN IF validation.threw
     THEN catchBlock(acao, map)
     ELSE renderAndSend(acao, data, map)

\* "Validate input data"
validateStage(acao, data, map) ==
  LET validation == validateContactData(data)
  IN IF validation.threw
     THEN catchBlock(acao, map)
     ELSE IF ~validation.isValid
     THEN Outcome("validation",
                  Response(400, acao, "false", MsgValidation, validation.errors),
                  map, "allowed", acao, NoArgs)
     ELSE renderAndSend(acao, data, map)

\* "Parse request body"
parseStage(acao, event, map) ==
  LET parsed == JSONParse(event.body)
  IN IF ~parsed.ok
     THEN Outcome("json", Response(400, acao, "false", MsgBadJson, <<>>), map,
                  "allowed", acao, NoArgs)
     ELSE validateStage(acao, parsed.data, map)

\* rateLimitStage with the body parsed and validated before the rate limiter
\* is consulted: a request refused for its body is not counted
rateLimitStageAfterValidation(acao, event, map, t) ==
  LET early == parseStage(acao, event, map)
      verdict == checkRateLimit(map, clientIP(event), t)
  IN IF early.path # "await"
     THEN [early EXCEPT !.verdict = "none"]
     ELSE IF ~verdict.allowed
     THEN Outcome("limit", Response(429, acao, "false", MsgTooMany, <<>>),
                  verdict.map, "denied", acao, NoArgs)
     ELSE parseStage(acao, event, verdict.map)

\* "Rate limiting"
rateLimitStage(acao, event, map, t) ==
  LET verdict == checkRateLimit(map, clientIP(event), t)
  IN IF ~verdict.allowed
     THEN Outcome("limit", Response(429, acao, "false", MsgTooMany, <<>>),
                  verdict.map, "denied", acao, NoArgs)
     ELSE parseStage(acao, event, verdict.map)

\* handlerEntry with the rate limiter consulted before the preflight is answered
handlerEntryLimitsPreflight(event, origins, map, t) ==
  LET acao == corsHeaders(origins, event.origin)
      limited == rateLimitStage(acao, event, map, t)
  IN IF limited.verdict = "denied"
     THEN limited
     ELSE IF event.httpMethod = "OPTIONS"
     THEN Outcome("preflight", Response(200, acao, "absent", MsgPreflight, <<>>),
                  limited.map, limited.verdict, acao, NoArgs)
     ELSE IF event.httpMethod # "POST"
     THEN Outcome("method", Response(405, acao, "false", MsgMethod, <<>>),
                  map, "none", acao, NoArgs)
     ELSE limited

\* handlerEntry with the method checked only after the rate limiter
handlerEntryLimitsAnyMethod(event, origins, map, t) ==
  LET acao == corsHeaders(origins, event.origin)
      limited == rateLimitStage(acao, event, map, t)
  IN IF event.httpMethod = "OPTIONS"
     THEN Outcome("preflight", Response(200, acao, "absent", MsgPreflight, <<>>),
                  map, "none", acao, NoArgs)
     ELSE IF limited.verdict = "denied"
     THEN limited
     ELSE IF event.httpMethod # "POST"
     THEN Outcome("method", Response(405, acao, "false", MsgMethod, <<>>),
                  limited.map, limited.verdict, acao, NoArgs)
     ELSE limited

\* the handler from its entry to its first return or to the await
handlerEntry(event, origins, map, t) ==
  LET acao == corsHeaders(origins, event.origin)
  IN IF event.httpMethod = "OPTIONS"
     THEN Outcome("preflight", Response(200, acao, "absent", MsgPreflight, <<>>),
                  map, "none", acao, NoArgs)
     ELSE IF event.httpMethod # "POST"
     THEN Outcome("method", Response(405, acao, "false", MsgMethod, <<>>),
                  map, "none", acao, NoArgs)
     ELSE rateLimitStage(acao, event, map, t)

\* handlerResume without the catch block: a rejection leaves the handler
handlerResumeUncaught(acao, settled) ==
  CASE settled.kind = "rejected" ->
         [path |-> "unhandled", response |-> NoResponse, sends |-> 0]
    [] settled.kind = "error" ->
         [path |-> "provider", sends |-> 0,
          response |-> Response(500, acao, "false", MsgSendFailed, <<>>)]
    [] OTHER ->
         [path |-> "success", sends |-> 0,
          response |-> Response(200, acao, "true", MsgSent, <<>>)]

\* handlerResume relaying the provider's error to the caller
handlerResumeLeaksDetail(acao, settled) ==
  CASE settled.kind = "rejected" ->
         [path |-> "catch", sends |-> 0,
          response |-> Response(500, acao, "false", MsgUnexpected, <<>>)]
    [] settled.kind = "error" ->
         [path |-> "provider", sends |-> 0,
          response |-> Response(500, acao, "false", settled.detail, <<>>)]
    [] OTHER ->
         [path |-> "success", sends |-> 0,
          response |-> Response(200, acao, "true", MsgSent, <<>>)]

\* handlerResume calling resend.emails.send a second time when the first call
\* resolved with an error object, and answering 500 when that fails as well
handlerResumeRetriesOnce(acao, settled) ==
  CASE settled.kind = "rejected" ->
         [path |-> "catch", sends |-> 0,
          response |-> Response(500, acao, "false", MsgUnexpected, <<>>)]
    [] settled.kind = "error" ->
         [path |-> "provider", sends |-> 1,
          response |-> Response(500, acao, "false", MsgSendFailed, <<>>)]
    [] OTHER ->
         [path |-> "success", sends |-> 0,
          response |-> Response(200, acao, "true", MsgSent, <<>>)]

\* the handler from the settling of resend.emails.send to its return: the
\* provider resolved without error, resolved with an error object, or rejected;
\* sends is the number of calls of resend.emails.send made on the way (none)
handlerResume(acao, settled) ==
  CASE settled.kind = "rejected" ->
         [path |-> "catch", sends |-> 0,
          response |-> Response(500, acao, "false", MsgUnexpected, <<>>)]
    [] settled.kind = "error" ->
         [path |-> "provider", sends |-> 0,
          response |-> Response(500, acao, "false", MsgSendFailed, <<>>)]
    [] OTHER ->
         [path |-> "success", sends |-> 0,
          response |-> Response(200, acao, "true", MsgSent, <<>>)]

---------------------------------------------------------------------------
(* Inputs *)

Jane == Str(<<"J", "a", "n", "e">>)
JaneEmail == Str(<<"j", "@", "e", ".", "c">>)
Hello == Str(<<"H", "e", "l", "l", "o", ",", " ", "I", " ", "w", "o", "u", "l", "d">>)
ValidPayload == Obj(Jane, JaneEmail, Hello, Undefined, Undefined, Undefined)
\* {"name":"J","email":"not-an-email","message":"short"}
BadPayload ==
  Obj(Str(<<"J">>), Str(<<"n", "o", "t">>), Str(<<"s", "h", "o", "r", "t">>),
      Undefined, Undefined, Undefined)

Body(data) == [kind |-> "json", data |-> data]
BodyAbsent == [kind |-> "absent", data |-> EmptyObject]
BodyMalformed == [kind |-> "malformed", data |-> EmptyObject]

\* the bodies of the requests of the handler specification
Bodies ==
  {BodyAbsent, BodyMalformed, Body(Prim(Null)), Body(Prim(Num(7))),
   Body(ValidPayload), Body(BadPayload),
   Body([ValidPayload EXCEPT !.subject = Str(<<"H", "i", "<">>)]),
   Body([ValidPayload EXCEPT !.subject = Num(7)])}

OriginHeaders == {NoHeader, Header(<<"a">>), Header(<<"b">>)}
\* the client-ip and x-forwarded-for headers of a request: neither, one of
\* them, or both with different addresses
AddressHeaders ==
  {<<NoHeader, NoHeader>>, <<Header(<<"1">>), NoHeader>>,
   <<NoHeader, Header(<<"1">>)>>, <<Header(<<"1">>), Header(<<"2">>)>>}

Event(method, origin, clientIp, xff, body) ==
  [httpMethod |-> method, origin |-> origin, clientIp |-> clientIp,
   xff |-> xff, body |-> body]

\* the requests of the handler specification: every method, every body, every
\* Origin header, all from one client key
Events ==
  {Event(m, o, NoHeader, NoHeader, BodyAbsent) :
     m \in {"OPTIONS", "GET"}, o \in OriginHeaders}
  \cup {Event("POST", NoHeader, NoHeader, NoHeader, b) : b \in Bodies}
  \cup {Event("POST", o, NoHeader, NoHeader, Body(ValidPayload)) : o \in OriginHeaders}

\* the requests of the rate limiter specification: POSTs of every client key,
\* with a body that is rejected and one that reaches the provider
RateEvents ==
  {Event("POST", NoHeader, a[1], a[2], Body(BadPayload)) : a \in AddressHeaders}
  \cup {Event("POST", NoHeader, NoHeader, NoHeader, Body(ValidPayload))}

\* the values of process.env.ALLOWED_ORIGINS of the handler specification:
\* unset, "a" and "a," (a trailing comma)
Environments == {NoHeader, Header(<<"a">>), Header(<<"a", ",">>)}

\* what the provider may report
ProviderErrors == {"invalid api key", "domain not verified"}
Settlements ==
  {[kind |-> "ok", detail |-> ""]}
  \cup [kind : {"error", "rejected"}, detail : ProviderErrors]
NotSettled == [kind |-> "none", detail |-> ""]
\* what the provider reports in the rate limiter specification
RateSettlements ==
  {[kind |-> "ok", detail |-> ""], [kind |-> "error", detail |-> "invalid api key"]}

\* the readings of the clock
Instants ==
  {0, rateLimitWindowMs} \cup
    {a * (rateLimitWindowMs + 1) : a \in 1..MaxWindows}

---------------------------------------------------------------------------
(* State *)

NoEvent == Event("", NoHeader, NoHeader, NoHeader, BodyAbsent)
NoCall == [called |-> FALSE, key |-> <<>>, allowed |-> FALSE]
NoLast ==
  [path |-> "none", event |-> NoEvent, response |-> NoResponse, sent |-> <<>>,
   settled |-> NotSettled, verdict |-> "none", touched |-> FALSE]
NotSanitized == [done |-> FALSE, once |-> <<>>, twice |-> <<>>]
NotRun == [ran |-> FALSE, threw |-> FALSE, isValid |-> FALSE, errors |-> <<>>]

Min(a, b) == IF a <= b THEN a ELSE b

\* the calls of a key's current window, as the window is defined by its first
\* call: a call later than first + rateLimitWindowMs opens a new window.  The
\* number of calls is kept up to maxRequestsPerWindow + 1 ("more than the
\* limit"), and so is the number of them that were allowed (ok); onlyFailed
\* tells whether every allowed call of the window was answered 400 or 500
\* before the provider was called (failed); exceeded tells whether the window
\* before had more calls than the limit.
HistNext(h, k, t, ok, failed) ==
  LET one == IF ok THEN 1 ELSE 0
  IN IF k \notin DOMAIN h
     THEN MapSet(h, k, [first |-> t, calls |-> 1, allowed |-> one,
                        onlyFailed |-> failed, exceeded |-> FALSE])
     ELSE IF t > h[k].first + rateLimitWindowMs
     THEN [h EXCEPT ![k] = [first |-> t, calls |-> 1, allowed |-> one,
                           onlyFailed |-> failed,
                           exceeded |-> h[k].calls > maxRequestsPerWindow]]
     ELSE [h EXCEPT ![k].calls = Min(@ + 1, maxRequestsPerWindow + 1),
                    ![k].allowed = Min(@ + one, maxRequestsPerWindow + 1),
                    ![k].onlyFailed = IF ok THEN @ /\ failed ELSE @]

Init ==
  /\ allowedOrigins \in {loadAllowedOrigins(env) : env \in Environments}
  /\ rateLimitMap = <<>>
  /\ now = 0
  /\ pending = EmptyBag
  /\ rl = NoCall
  /\ hist = <<>>
  /\ last = NoLast
  /\ vIn = Prim(Null)
  /\ vOut = NotRun
  /\ cIn = [env |-> NoHeader, origin |-> NoHeader]
  /\ cOut = <<>>
  /\ sIn = <<>>
  /\ sOut = NotSanitized

\* an invocation suspended at the await, with the locals it resumes with
Suspended(event, r, touched) ==
  [event |-> event, acao |-> r.acao, sent |-> <<r.args>>, verdict |-> r.verdict,
   touched |-> touched, key |-> clientIP(event)]

\* one invocation of the handler, from its entry to its return or to the await
\* (pending holds the invocations suspended there, each with its locals)
Invoke(event) ==
  LET r == handlerEntry(event, allowedOrigins, rateLimitMap, now)
      key == clientIP(event)
  IN /\ r.path = "await" => BagCardinality(pending) < MaxPending
     /\ rateLimitMap' = r.map
     /\ IF r.verdict # "none"
        THEN /\ hist' = HistNext(hist, key, now, r.verdict = "allowed",
                                  /\ r.path # "await"
                                  /\ r.response.statusCode \in {400, 500})
             /\ rl' = [called |-> TRUE, key |-> key, allowed |-> r.verdict = "allowed"]
        ELSE UNCHANGED <<hist, rl>>
     /\ IF r.path = "await"
        THEN /\ pending' = pending (+)
                           SetToBag({Suspended(event, r, r.map # rateLimitMap)})
             /\ UNCHANGED last
        ELSE /\ last' = [path |-> r.path, event |-> event, response |-> r.response,
                         sent |-> <<>>, settled |-> NotSettled,
                         verdict |-> r.verdict, touched |-> r.map # rateLimitMap,
                         key |-> IF r.verdict # "none" THEN key ELSE <<>>]
             /\ UNCHANGED pending
     /\ UNCHANGED <<allowedOrigins, now, vIn, vOut, cIn, cOut, sIn, sOut>>

\* Settle for a platform that resumes an invocation only when no other one is
\* suspended
SettleWhenAlone(p, settled) ==
  LET r == handlerResume(p.acao, settled)
  IN /\ pending = SetToBag({p})
     /\ last' = [path |-> r.path, event |-> p.event, response |-> r.response,
                 sent |-> p.sent \o [i \in 1..r.sends |-> p.sent[1]],
                 settled |-> settled,
                 verdict |-> p.verdict, touched |-> p.touched, key |-> p.key]
     /\ pending' = EmptyBag
     /\ UNCHANGED <<allowedOrigins, rateLimitMap, now, rl, hist, vIn, vOut, cIn, cOut, sIn, sOut>>

\* resend.emails.send settles and the suspended invocation p runs to its return
Settle(p, settled) ==
  LET r == handlerResume(p.acao, settled)
  IN /\ BagIn(p, pending)
     /\ last' = [path |-> r.path, event |-> p.event, response |-> r.response,
                 sent |-> p.sent \o [i \in 1..r.sends |-> p.sent[1]],
                 settled |-> settled,
                 verdict |-> p.verdict, touched |-> p.touched, key |-> p.key]
     /\ pending' = pending (-) SetToBag({p})
     /\ UNCHANGED <<allowedOrigins, rateLimitMap, now, rl, hist, vIn, vOut, cIn, cOut, sIn, sOut>>

\* time passes
Tick ==
  /\ \E t \in Instants : t > now /\ now' = t
  /\ UNCHANGED <<allowedOrigins, rateLimitMap, pending, rl, hist, last,
                 vIn, vOut, cIn, cOut, sIn, sOut>>

Next ==
  \/ \E event \in Events : Invoke(event)
  \/ \E p \in BagToSet(pending) : \E settled \in Settlements : Settle(p, settled)

Spec == Init /\ [][Next]_vars

\* every invocation that can be suspended at the await
Suspensions ==
  {Suspended(event, handlerEntry(event, loadAllowedOrigins(env), <<>>, 0), TRUE) :
     event \in {e \in Events : \E env \in Environments :
                  handlerEntry(e, loadAllowedOrigins(env), <<>>, 0).path = "await"},
     env \in Environments}

\* the handler with a provider whose send call always settles: every
\* suspended invocation is resumed in the end
SpecLive ==
  /\ Init
  /\ [][Next]_vars
  /\ \A p \in Suspensions : WF_vars(\E settled \in Settlements : Settle(p, settled))

\* the rate limiter under requests of several client keys
InitRate ==
  /\ Init
  /\ allowedOrigins = <<>>

NextRate ==
  \/ \E event \in RateEvents : Invoke(event)
  \/ \E p \in BagToSet(pending) : \E settled \in RateSettlements : Settle(p, settled)
  \/ Tick

SpecRate == InitRate /\ [][NextRate]_vars

---------------------------------------------------------------------------
(* The validator on its own: every payload of Payloads is validated once *)

\* all strings over an alphabet, up to a length
StringsUpTo(alphabet, n) == UNION {[1..k -> alphabet] : k \in 0..n}

Repeat(c, n) == [i \in 1..n |-> c]

NotStrings == {Undefined, Null, Num(0), Num(7), Arr(0), Arr(2)}
NameValues == NotStrings \cup {Str(cs) : cs \in StringsUpTo({"a", " "}, MaxNameLen)}
EmailValues ==
  NotStrings \cup {Str(cs) : cs \in StringsUpTo({"a", "@", ".", " "}, MaxEmailLen)}
\* messages around both limits, with and without surrounding white space
MessageValues ==
  NotStrings
  \cup {Arr(maxMessageLength), Arr(maxMessageLength + 1), Str(Repeat(" ", 12))}
  \cup {Str(Repeat(" ", l) \o Repeat("m", n) \o Repeat("\n", r)) :
          l \in {0, 1}, r \in {0, 1},
          n \in {0, 9, 10, 11, maxMessageLength - 2, maxMessageLength - 1,
                 maxMessageLength, maxMessageLength + 1}}

\* a value that passes its rule and one that fails it, for the fields that a
\* sweep of another field holds fixed
SomeNames == {Jane, Str(<<"J">>)}
SomeEmails == {JaneEmail, Str(<<"n", "o", "t">>)}
SomeMessages == {Hello, Str(<<"s", "h", "o", "r", "t">>)}

Payloads ==
  {Prim(v) : v \in NotStrings \cup {Str(<<"a">>)}}
  \cup {Obj(n, e, m, Undefined, Undefined, Undefined) :
          n \in NameValues, e \in SomeEmails, m \in SomeMessages}
  \cup {Obj(n, e, m, Undefined, Undefined, Undefined) :
          n \in SomeNames, e \in EmailValues, m \in SomeMessages}
  \cup {Obj(n, e, m, Undefined, Undefined, Undefined) :
          n \in SomeNames, e \in SomeEmails, m \in MessageValues}

InitValidate ==
  /\ vIn \in Payloads
  /\ vOut = NotRun
  /\ allowedOrigins = <<>>
  /\ rateLimitMap = <<>>
  /\ now = 0
  /\ pending = EmptyBag
  /\ rl = NoCall
  /\ hist = <<>>
  /\ last = NoLast
  /\ cIn = [env |-> NoHeader, origin |-> NoHeader]
  /\ cOut = <<>>
  /\ sIn = <<>>
  /\ sOut = NotSanitized

Validate ==
  /\ ~vOut.ran
  /\ vOut' = LET v == validateContactData(vIn)
             IN [ran |-> TRUE, threw |-> v.threw, isValid |-> v.isValid,
                 errors |-> v.errors]
  /\ UNCHANGED <<allowedOrigins, rateLimitMap, now, pending, rl, hist, last,
                 vIn, cIn, cOut, sIn, sOut>>

SpecValidate == InitValidate /\ [][Validate]_vars

---------------------------------------------------------------------------
(* The CORS rule on its own: every ALLOWED_ORIGINS value against every Origin *)

CorsEnvironments ==
  {NoHeader} \cup {Header(cs) : cs \in StringsUpTo({"a", "b", ","}, MaxEnvLen)}
CorsOrigins ==
  {NoHeader} \cup {Header(cs) : cs \in StringsUpTo({"a", "b"}, MaxOriginLen)}
NotComputed == <<"not computed">>

InitCors ==
  /\ cIn \in [env : CorsEnvironments, origin : CorsOrigins]
  /\ cOut = NotComputed
  /\ allowedOrigins = <<>>
  /\ rateLimitMap = <<>>
  /\ now = 0
  /\ pending = EmptyBag
  /\ rl = NoCall
  /\ hist = <<>>
  /\ last = NoLast
  /\ vIn = Prim(Null)
  /\ vOut = NotRun
  /\ sIn = <<>>
  /\ sOut = NotSanitized

ComputeCors ==
  /\ cOut = NotComputed
  /\ cOut' = corsHeaders(loadAllowedOrigins(cIn.env), cIn.origin)
  /\ UNCHANGED <<allowedOrigins, rateLimitMap, now, pending, rl, hist, last,
                 vIn, vOut, cIn, sIn, sOut>>

SpecCors == InitCors /\ [][ComputeCors]_vars

---------------------------------------------------------------------------
(* sanitizeString on its own: every string over a small alphabet, applied   *)
(* once and then again to its own result                                    *)

SanitizeAlphabet == {"a", " ", "&", "<", ">"}

InitSanitize ==
  /\ sIn \in StringsUpTo(SanitizeAlphabet, MaxSanitizeLen)
  /\ sOut = NotSanitized
  /\ allowedOrigins = <<>>
  /\ rateLimitMap = <<>>
  /\ now = 0
  /\ pending = EmptyBag
  /\ rl = NoCall
  /\ hist = <<>>
  /\ last = NoLast
  /\ vIn = Prim(Null)
  /\ vOut = NotRun
  /\ cIn = [env |-> NoHeader, origin |-> NoHeader]
  /\ cOut = <<>>

Sanitize ==
  /\ ~sOut.done
  /\ sOut' = [done |-> TRUE,
              once |-> sanitizeString(sIn),
              twice |-> sanitizeString(sanitizeString(sIn))]
  /\ UNCHANGED <<allowedOrigins, rateLimitMap, now, pending, rl, hist, last,
                 vIn, vOut, cIn, cOut, sIn>>

SpecSanitize == InitSanitize /\ [][Sanitize]_vars

---------------------------------------------------------------------------
(* Properties *)

Range(seq) == {seq[i] : i \in 1..Len(seq)}

\* the invocation that returned last, if any
Returned == last.path # "none"
\* the payload of a request whose body parses
PayloadOf(event) == JSONParse(event.body).data

\* C1: for every client key, the first maxRequestsPerWindow calls of checkRateLimit
\* within one window (counted from the call that found the entry missing or
\* expired) are allowed and every further call of that window is denied; the call
\* that opens a window, in particular the first one after a window has elapsed,
\* is allowed and leaves the entry at count 1 with resetTime = now + window.
C1_WindowQuota ==
  rl.called =>
    LET w == hist[rl.key]
    IN /\ rl.allowed <=> w.calls <= maxRequestsPerWindow
       /\ w.calls = 1 =>
            /\ rl.key \in DOMAIN rateLimitMap
            /\ rateLimitMap[rl.key] =
                 [count |-> 1, resetTime |-> w.first + rateLimitWindowMs]
       /\ w.calls \in 2..maxRequestsPerWindow =>
            rateLimitMap[rl.key] =
              [count |-> w.calls, resetTime |-> w.first + rateLimitWindowMs]

\* a key was denied in one window and its first call after that window has
\* elapsed was allowed and left count 1
C1_Witness ==
  /\ rl.called
  /\ rl.allowed
  /\ hist[rl.key].calls = 1
  /\ hist[rl.key].exceeded
  /\ rateLimitMap[rl.key].count = 1
  /\ rateLimitMap[rl.key].resetTime = now + rateLimitWindowMs

\* a request for which resend.emails.send may be invoked
Accepted(event, verdict) ==
  /\ event.httpMethod = "POST"
  /\ verdict = "allowed"
  /\ JSONParse(event.body).ok
  /\ LET v == validateContactData(PayloadOf(event))
     IN ~v.threw /\ v.isValid

\* C2: resend.emails.send is invoked only for a POST that checkRateLimit allowed,
\* whose body parsed and whose payload passed validateContactData; a request
\* answered 429 or 400 has no send.
C2_SendOnlyIfAccepted ==
  /\ \A p \in BagToSet(pending) : p.sent # <<>> => Accepted(p.event, p.verdict)
  /\ last.sent # <<>> => Accepted(last.event, last.verdict)
  /\ last.verdict = "denied" => last.response.statusCode = 429
  /\ last.response.statusCode \in {400, 429} => last.sent = <<>>

\* a POST with a valid payload was denied by the rate limiter and nothing was sent
C2_Witness ==
  /\ last.verdict = "denied"
  /\ last.event.body = Body(ValidPayload)
  /\ last.response.statusCode = 429
  /\ last.sent = <<>>

\* C3: every invocation returns a response with a status code and the
\* Access-Control-Allow-Origin header computed at its entry, on every path; no
\* exception leaves the handler.
C3_AlwaysStructuredResponse ==
  Returned =>
    /\ last.path \in {"preflight", "method", "limit", "json", "validation",
                      "provider", "catch", "success"}
    /\ last.response.statusCode \in {200, 400, 405, 429, 500}
    /\ last.response.headers.present
    /\ last.response.headers.acao = corsHeaders(allowedOrigins, last.event.origin)

\* the provider call raised and the invocation still returned a response with
\* the header
C3_Witness ==
  /\ last.settled.kind = "rejected"
  /\ last.path = "catch"
  /\ last.response.statusCode = 500
  /\ last.response.headers.present

\* the errors the validation rules ask for, rule by rule: a field that is not a
\* string is missing or of the wrong type
FieldOf(data, f) == IF data.t = "object" THEN data[f] ELSE Undefined
TrimmedLength(v) == Len(Trim(v.s))
MatchesEmailPattern(cs) ==
  LET ats == {i \in 1..Len(cs) : cs[i] = "@"}
  IN /\ Cardinality(ats) = 1
     /\ \A i \in 1..Len(cs) : ~IsSpace(cs[i])
     /\ LET at == CHOOSE i \in ats : TRUE
            domain == SubSeq(cs, at + 1, Len(cs))
        IN /\ at > 1
           /\ \E d \in 2..(Len(domain) - 1) : domain[d] = "."
RawLength(v) ==
  CASE v.t = "string" -> Len(v.s)
    [] v.t = "array" -> v.n
    [] OTHER -> 0
ExpectedErrors(data) ==
  LET name == FieldOf(data, "name")
      email == FieldOf(data, "email")
      message == FieldOf(data, "message")
  IN {e \in {ErrName} : name.t # "string" \/ TrimmedLength(name) < 2}
     \cup {e \in {ErrEmail} : email.t # "string" \/ ~MatchesEmailPattern(email.s)}
     \cup {e \in {ErrMessageMin} : message.t # "string" \/ TrimmedLength(message) < 10}
     \cup {e \in {ErrMessageMax} : RawLength(message) > maxMessageLength}

\* C4: validateContactData never throws on invalid input: a POST that was
\* allowed and whose body parsed to a payload breaking a rule (null, a value
\* that is no object and fields of the wrong type included) is answered 400
\* "Validation failed" with a non-empty error list, never 500.
C4_InvalidPayloadAnswered400 ==
  (/\ Returned
   /\ last.event.httpMethod = "POST"
   /\ last.verdict = "allowed"
   /\ JSONParse(last.event.body).ok
   /\ ExpectedErrors(PayloadOf(last.event)) # {})
  => /\ last.response.statusCode = 400
     /\ last.response.body.message = MsgValidation
     /\ last.response.body.error # <<>>

\* C5: for every payload validateContactData returns exactly the errors of the
\* violated rules, each rule checked on its own, each error once, and isValid
\* is true iff there is none.
C5_ExactErrorSet ==
  vOut.ran =>
    /\ ~vOut.threw
    /\ Range(vOut.errors) = ExpectedErrors(vIn)
    /\ Len(vOut.errors) = Cardinality(ExpectedErrors(vIn))
    /\ vOut.isValid <=> ExpectedErrors(vIn) = {}

\* the statement of C5 on every payload other than null
ExactErrorSetUnlessNull == vIn.t # "null" => C5_ExactErrorSet

\* C6: when the provider reports success for a request, the handler answers 200
\* {success: true, message: 'Message sent successfully!'} and send was invoked
\* exactly once for that request, with reply-to the submitted email field.
C6_SuccessAnswered200 ==
  last.settled.kind = "ok" =>
    /\ Accepted(last.event, last.verdict)
    /\ last.response.statusCode = 200
    /\ last.response.body = [success |-> "true", message |-> MsgSent, error |-> <<>>]
    /\ Len(last.sent) = 1
    /\ last.sent[1].replyTo = PayloadOf(last.event).email

\* the provider reported success for the submission of Jane Doe
C6_Witness ==
  /\ last.settled.kind = "ok"
  /\ last.path = "success"
  /\ last.sent # <<>>
  /\ last.sent[1].replyTo = JaneEmail

\* C7: when the provider's send fails, by an error object or by raising, the
\* handler answers 500 with success = false and a fixed message that depends on
\* the way of failing only; nothing of the provider's error is in the body.
C7_ProviderFailureGeneric500 ==
  last.settled.kind \in {"error", "rejected"} =>
    /\ last.response.statusCode = 500
    /\ last.response.body.success = "false"
    /\ last.response.body.error = <<>>
    /\ last.response.body.message =
         (IF last.settled.kind = "error" THEN MsgSendFailed ELSE MsgUnexpected)
    /\ last.response.body.message \notin ProviderErrors

\* the provider answered with an error object and the handler returned 500
C7_Witness ==
  /\ last.settled.kind = "error"
  /\ last.settled.detail \in ProviderErrors
  /\ last.response.statusCode = 500

\* C8: Access-Control-Allow-Origin is '*' without an allow-list; with one, it is
\* the request's Origin header when that header is present and in the list, and
\* 'null' otherwise (so never an echoed or empty value for a request without
\* Origin header).
C8_AllowOriginRule ==
  cOut # NotComputed =>
    LET list == loadAllowedOrigins(cIn.env)
    IN cOut = (IF Len(list) > 0
               THEN (IF cIn.origin.present /\ Includes(list, cIn.origin.v)
                     THEN cIn.origin.v
                     ELSE AcaoNull)
               ELSE AcaoAny)

\* C9: an OPTIONS request is answered 200 {"message":"CORS preflight successful"}
\* without the rate limiter, the validator or the dispatcher: the rate-limit
\* table is as it was, whatever it holds.
C9_PreflightTouchesNothing ==
  (Returned /\ last.event.httpMethod = "OPTIONS") =>
    /\ last.path = "preflight"
    /\ last.response.statusCode = 200
    /\ last.response.body =
         [success |-> "absent", message |-> MsgPreflight, error |-> <<>>]
    /\ last.verdict = "none"
    /\ ~last.touched
    /\ last.sent = <<>>

\* an OPTIONS request was answered while its client key was at the limit
C9_Witness ==
  /\ last.path = "preflight"
  /\ last.event.httpMethod = "OPTIONS"
  /\ clientIP(last.event) \in DOMAIN rateLimitMap
  /\ rateLimitMap[clientIP(last.event)].count = maxRequestsPerWindow

\* C10: a request that is neither POST nor OPTIONS is answered 405 with
\* success = false before the rate limiter: no entry is created or counted, and
\* nothing is parsed, validated or sent.
C10_OtherMethodAnswered405 ==
  (Returned /\ last.event.httpMethod \notin {"POST", "OPTIONS"}) =>
    /\ last.path = "method"
    /\ last.response.statusCode = 405
    /\ last.response.body = [success |-> "false", message |-> MsgMethod, error |-> <<>>]
    /\ last.verdict = "none"
    /\ ~last.touched
    /\ last.sent = <<>>

\* a GET request was answered 405 while the table had no entry for its key
C10_Witness ==
  /\ last.path = "method"
  /\ last.event.httpMethod = "GET"
  /\ last.response.statusCode = 405
  /\ clientIP(last.event) \notin DOMAIN rateLimitMap

---------------------------------------------------------------------------
(* sanitizeString applied twice *)

Contains(cs, c) == \E i \in 1..Len(cs) : cs[i] = c

\* C11 as stated: on every input that contains neither '<' nor '>', inputs
\* with '&' included, sanitizing twice gives the same string as sanitizing once
C11_IdempotentWithoutAngleBrackets ==
  (sOut.done /\ ~Contains(sIn, "<") /\ ~Contains(sIn, ">")) =>
    sOut.twice = sOut.once

\* C11: on every input that contains none of '<', '>' and '&', sanitizing
\* twice gives the same string as sanitizing once; an '&' is escaped again by
\* every further application
C11_IdempotentWithoutEscapedCharacters ==
  /\ (sOut.done /\ ~Contains(sIn, "<") /\ ~Contains(sIn, ">")
        /\ ~Contains(sIn, "&")) =>
       sOut.twice = sOut.once
  /\ (sOut.done /\ Contains(sIn, "&")) => Len(sOut.twice) > Len(sOut.once)

C11_Witness ==
  /\ sOut.done
  /\ sIn = <<" ", " ", "a">>
  /\ sOut.once = <<"a">>
  /\ sOut.twice = <<"a">>

---------------------------------------------------------------------------
(* One call of resend.emails.send per request *)

\* C12: every request calls resend.emails.send at most once: an invocation
\* suspended at the await has made exactly one call, an invocation that
\* returned after the provider failed (error object or rejection) has still
\* made exactly one, and an invocation that returned without being suspended
\* has made none, so the send call is the only suspension point
C12_SendAtMostOnce ==
  /\ \A p \in BagToSet(pending) : Len(p.sent) = 1
  /\ Returned =>
       /\ Len(last.sent) <= 1
       /\ last.settled.kind \in {"error", "rejected"} =>
            /\ Len(last.sent) = 1
            /\ last.response.statusCode = 500
       /\ (last.settled.kind = "none") <=> (last.sent = <<>>)

C12_Witness ==
  /\ Returned
  /\ last.settled.kind = "error"
  /\ Len(last.sent) = 1
  /\ last.response.statusCode = 500
  /\ pending # EmptyBag

---------------------------------------------------------------------------
(* The rate limiter's table *)

\* C13: a call of checkRateLimit that denies leaves the whole table as it was:
\* the denied key's count and resetTime and every other key's entry, so that
\* a denied request never extends the block
C13_DenialLeavesTable ==
  (Returned /\ last.verdict = "denied") => ~last.touched

\* a request was denied after its window's first instant, with another key's
\* entry in the table
C13_Witness ==
  /\ Returned
  /\ last.verdict = "denied"
  /\ last.response.statusCode = 429
  /\ ~last.touched
  /\ now > 0
  /\ Cardinality(DOMAIN rateLimitMap) = 2

\* the key the rate limiter is to use for a request: its client-ip header, else
\* its x-forwarded-for header, else 'unknown' (an empty header counts as absent)
KeyOf(event) ==
  IF event.clientIp.present /\ event.clientIp.v # <<>> THEN event.clientIp.v
  ELSE IF event.xff.present /\ event.xff.v # <<>> THEN event.xff.v
  ELSE <<"unknown">>
Anonymous(event) == ~event.clientIp.present /\ ~event.xff.present

\* C14: every POST is counted under its client-ip header, else under its
\* x-forwarded-for header, and a POST that carries neither under the one key
\* 'unknown'; the callers of that key share one quota: its first
\* maxRequestsPerWindow calls of a window are allowed, whoever made them, and
\* the next is answered 429
C14_AnonymousShareOneKey ==
  /\ \A p \in BagToSet(pending) : p.key = KeyOf(p.event)
  /\ (Returned /\ last.verdict # "none") =>
       /\ last.key = KeyOf(last.event)
       /\ Anonymous(last.event) => last.key = <<"unknown">>
       /\ last.verdict = "denied" => last.response.statusCode = 429
  /\ (rl.called /\ rl.key = <<"unknown">>) =>
       /\ rl.allowed <=> hist[rl.key].calls <= maxRequestsPerWindow
       /\ rateLimitMap[rl.key].count <= maxRequestsPerWindow

\* an anonymous request is answered 429 in the window in which another
\* anonymous request was allowed and is still waiting for the provider
C14_Witness ==
  /\ Returned
  /\ Anonymous(last.event)
  /\ last.key = <<"unknown">>
  /\ last.verdict = "denied"
  /\ last.response.statusCode = 429
  /\ rl = [called |-> TRUE, key |-> <<"unknown">>, allowed |-> FALSE]
  /\ rateLimitMap[<<"unknown">>].count = maxRequestsPerWindow
  /\ now = 0
  /\ \E p \in BagToSet(pending) : Anonymous(p.event) /\ p.event # last.event

\* the number of invocations of key k that are suspended at the await
InFlight(k) ==
  LET ps == {p \in BagToSet(pending) : p.key = k}
      RECURSIVE Sum(_)
      Sum(S) == IF S = {} THEN 0
                ELSE LET p == CHOOSE q \in S : TRUE
                     IN CopiesIn(p, pending) + Sum(S \ {p})
  IN Sum(ps)

OnlyEntryOf(k) == [j \in (DOMAIN rateLimitMap) \cap {k} |-> rateLimitMap[j]]

\* C16: a call of checkRateLimit (a step in which no time passes and no
\* suspended invocation returns) for key k leaves the entry of every other key
\* as it was and adds no key but k, and its verdict is the verdict the limiter
\* gives at the same instant on a table that holds k's entry alone, whatever
\* requests were served before it
C16_KeysDoNotContend ==
  [][(now' = now /\ BagCardinality(pending') >= BagCardinality(pending)) =>
       LET k == rl'.key
       IN /\ rl'.called
          /\ DOMAIN rateLimitMap' = (DOMAIN rateLimitMap) \cup {k}
          /\ \A j \in (DOMAIN rateLimitMap) \ {k} :
               rateLimitMap'[j] = rateLimitMap[j]
          /\ rl'.allowed = checkRateLimit(OnlyEntryOf(k), k, now).allowed]_vars

\* a key is allowed and opens its second window while the other key is at its
\* limit in the window it opened at the start
C16_Witness ==
  \E k \in DOMAIN rateLimitMap : \E j \in DOMAIN rateLimitMap :
    /\ j # k
    /\ rl = [called |-> TRUE, key |-> k, allowed |-> TRUE]
    /\ hist[k].first = now
    /\ now > 0
    /\ rateLimitMap[k].count = 1
    /\ rateLimitMap[j] = [count |-> maxRequestsPerWindow,
                          resetTime |-> rateLimitWindowMs]

---------------------------------------------------------------------------
(* The rate limiter in the pipeline *)

\* C17: every POST is counted before its body is looked at: a POST answered
\* 400 or 500 was allowed by the rate limiter and has changed the table; once
\* maxRequestsPerWindow POSTs of a window have been so answered, every further
\* POST of that key in the window is denied; and a denied POST is answered 429
\* and calls resend.emails.send not at all, whatever its payload
C17_EveryPostCounts ==
  /\ (Returned /\ last.event.httpMethod = "POST") =>
       /\ last.verdict \in {"allowed", "denied"}
       /\ last.response.statusCode \in {400, 500} =>
            last.verdict = "allowed" /\ last.touched
       /\ last.verdict = "denied" =>
            last.response.statusCode = 429 /\ last.sent = <<>>
  /\ rl.called =>
       LET w == hist[rl.key]
       IN (w.onlyFailed /\ w.calls > maxRequestsPerWindow) =>
            ~rl.allowed /\ rateLimitMap[rl.key].count = maxRequestsPerWindow

\* maxRequestsPerWindow POSTs were answered 400 or 500, none reached the
\* provider, and a POST with a valid payload was then answered 429
C17_Witness ==
  /\ Returned
  /\ last.event.body = Body(ValidPayload)
  /\ last.verdict = "denied"
  /\ last.response.statusCode = 429
  /\ last.sent = <<>>
  /\ rl = [called |-> TRUE, key |-> last.key, allowed |-> FALSE]
  /\ hist[last.key].onlyFailed
  /\ hist[last.key].allowed = maxRequestsPerWindow
  /\ hist[last.key].calls = maxRequestsPerWindow + 1
  /\ pending = EmptyBag

---------------------------------------------------------------------------
(* The entries of the table *)

\* C18: every entry of the table has a count from 1 to maxRequestsPerWindow,
\* and the count is the number of calls that were allowed for the key since
\* the entry was created or last reset
C18_CountIsAllowedCalls ==
  /\ DOMAIN rateLimitMap = DOMAIN hist
  /\ \A k \in DOMAIN rateLimitMap :
       /\ 1 <= rateLimitMap[k].count
       /\ rateLimitMap[k].count <= maxRequestsPerWindow
       /\ rateLimitMap[k].count = hist[k].allowed
       /\ rateLimitMap[k].resetTime = hist[k].first + rateLimitWindowMs

\* one key is at the limit and has been denied, the other has been reset and
\* allowed twice since
C18_Witness ==
  \E k \in DOMAIN rateLimitMap : \E j \in DOMAIN rateLimitMap :
    /\ rateLimitMap[k].count = maxRequestsPerWindow
    /\ hist[k].calls = maxRequestsPerWindow + 1
    /\ hist[j].first > 0
    /\ rateLimitMap[j].count = 2

\* C19: in every step every key of the table stays in the table; a key's
\* resetTime changes only in a step taken later than that resetTime, which
\* leaves the entry at count 1 with resetTime = now + window; and a step taken
\* no later than resetTime, the instant resetTime itself included, changes
\* the entry, if at all, by adding one to its count
C19_FixedWindowNoEviction ==
  [][\A k \in DOMAIN rateLimitMap :
       /\ k \in DOMAIN rateLimitMap'
       /\ rateLimitMap'[k].resetTime # rateLimitMap[k].resetTime =>
            /\ now > rateLimitMap[k].resetTime
            /\ rateLimitMap'[k] =
                 [count |-> 1, resetTime |-> now + rateLimitWindowMs]
       /\ (now <= rateLimitMap[k].resetTime
             /\ rateLimitMap'[k] # rateLimitMap[k]) =>
            rateLimitMap'[k] = [rateLimitMap[k] EXCEPT !.count = @ + 1]]_vars

\* key j opened a window at this instant and key k, whose window opened at the
\* start and ends at this very instant, was called after it: the call was
\* allowed and counted in the old window
C19_Witness ==
  \E k \in DOMAIN rateLimitMap : \E j \in DOMAIN rateLimitMap :
    /\ j # k
    /\ now > 0
    /\ hist[j].first = now
    /\ rl = [called |-> TRUE, key |-> k, allowed |-> TRUE]
    /\ hist[k].first = 0
    /\ rateLimitMap[k].resetTime = now
    /\ rateLimitMap[k].count >= 2

---------------------------------------------------------------------------
(* Every request ends with its response *)

\* the statuses the handler answers with
Statuses == {200, 400, 405, 429, 500}

\* C20: with a provider whose send call always settles, no invocation stays
\* suspended for ever: invocations of each kind are resumed again and again
\* or, from some point on, none of them is suspended, whatever other
\* invocations are suspended beside them (resuming one is possible in every
\* state in which it is suspended); every return, before or after the await, carries one response
\* with a status of 200, 400, 405, 429 or 500; and the step that resumes an
\* invocation ends it: it leaves the set of suspended invocations, and the
\* table and the calls of the provider are as they were
C20_EveryRequestTerminates ==
  /\ \A p \in Suspensions :
       \/ []<>(<<\E settled \in Settlements : Settle(p, settled)>>_vars)
       \/ <>[](~BagIn(p, pending))
  /\ [](\A p \in BagToSet(pending) :
          ENABLED (\E settled \in Settlements : Settle(p, settled)))
  /\ [](Returned => last.response.statusCode \in Statuses)
  /\ [][\A p \in BagToSet(pending) :
          (\E settled \in Settlements : Settle(p, settled)) =>
            /\ BagCardinality(pending') = BagCardinality(pending) - 1
            /\ rateLimitMap' = rateLimitMap
            /\ last'.event = p.event
            /\ last'.sent = p.sent
            /\ last'.response.statusCode \in {200, 500}]_vars

\* an invocation has returned from the await while another one, suspended
\* with it, still waits for the provider
C20_Witness ==
  /\ Returned
  /\ last.settled.kind # "none"
  /\ last.response.statusCode \in {200, 500}
  /\ BagCardinality(pending) >= 1

====
